---- MODULE Spec2Model ----
(***************************************************************************)
(* Model of rocket-loadavg-api (src/main.rs): one Rocket route,            *)
(* GET /loadavg, whose handler calls getloadavg(3) through an unsafe       *)
(* foreign declaration and serialises the three averages as JSON.          *)
(*                                                                         *)
(* Load averages are f64 in the program.  The kernel reports them with two *)
(* decimals, so the model carries them as integers in hundredths           *)
(* (120 is 1.2); the JSON number text is produced digit by digit.          *)
(***************************************************************************)
EXTENDS Integers, Sequences, FiniteSets, TLC

\* ---------------------------------------------------------------- bounds
\* number of requests in flight at once
NReq == 2
\* number of non-idle kernel load states the host can be in
MaxOs == 1

Reqs == 1..NReq

\* ------------------------------------------------------- the environment
Methods == {"GET", "HEAD", "POST"}
Paths == {"/loadavg", "/"}

\* samples the kernel can report, hundredths: 0.5 0.75 1.2 0.05 1.0 2.3
SampleRing == <<50, 75, 120, 5, 100, 230>>

SampleAt(i) == SampleRing[((i - 1) % Len(SampleRing)) + 1]

\* the idle host, and MaxOs loaded states with three distinct averages
OsStates == {<<0, 0, 0>>} \cup {<<SampleAt(i), SampleAt(i + 1), SampleAt(i + 2)>> : i \in 1..MaxOs}

VARIABLES os, running, pc, method, path, lavgs, readOf, resp

vars == <<os, running, pc, method, path, lavgs, readOf, resp>>

\* ------------------------------------------------------------ main.rs:22
\* load_avg_len passed to getloadavg, and the length of the buffer
NELEM == 3

\* what getloadavg can return: -1 when the averages are unobtainable,
\* otherwise the number of samples it wrote (0..3)
OsResults == {0 - 1} \cup (0..NELEM)

\* number of leading slots getloadavg writes for a given return value
Written(ret) == IF ret < 0 THEN 0 ELSE ret

\* the fresh local buffer, main.rs:29
ZeroBufSentinel == <<0 - 1, 0 - 1, 0 - 1>>

\* a buffer that outlives the request and keeps what the last call wrote
ZeroBufStale == IF \E q \in Reqs : readOf[q] # <<>> /\ readOf[q][1].ret = NELEM THEN readOf[CHOOSE q \in Reqs : readOf[q] # <<>> /\ readOf[q][1].ret = NELEM][1].samples ELSE <<0, 0, 0>>

ZeroBuf == <<0, 0, 0>>

\* the foreign call, main.rs:30: the first Written(ret) slots of the buffer
\* receive the kernel's samples, the others are left as they were
getloadavgSwapped(buf, snap, ret) == [i \in 1..NELEM |-> IF i <= Written(ret) THEN snap[Written(ret) + 1 - i] ELSE buf[i]]

getloadavg(buf, snap, ret) == [i \in 1..NELEM |-> IF i <= Written(ret) THEN snap[i] ELSE buf[i]]

\* the foreign function is declared without a return value (main.rs:22),
\* so no outcome of the call reaches the program: the process goes on
SurvivesCallUnwrap(ret) == ret >= 0

SurvivesCall(ret) == TRUE

\* struct literal, main.rs:34-38
LoadAvgOfSwapped(load_averages) == [last |-> load_averages[1], last5 |-> load_averages[3], last15 |-> load_averages[2]]

LoadAvgOf(load_averages) == [last |-> load_averages[1], last5 |-> load_averages[2], last15 |-> load_averages[3]]

\* ---------------------------------------------------- JSON serialisation
Digit(d) == <<"0", "1", "2", "3", "4", "5", "6", "7", "8", "9">>[d + 1]

RECURSIVE IntDigits(_)
IntDigits(n) == IF n < 10 THEN <<Digit(n)>> ELSE IntDigits(n \div 10) \o <<Digit(n % 10)>>

\* fraction of a value with two decimals: shortest text, at least one digit
FracDigits(c) == IF c % 10 = 0 THEN <<Digit(c \div 10)>> ELSE <<Digit(c \div 10), Digit(c % 10)>>

Abs(h) == IF h < 0 THEN 0 - h ELSE h

\* serde_json's text of an f64 (finite): sign, integer part, ".", fraction
FormatF64(h) == (IF h < 0 THEN <<"-">> ELSE <<>>) \o IntDigits(Abs(h) \div 100) \o <<".">> \o FracDigits(Abs(h) % 100)

\* #[derive(Serialize)], main.rs:14-19: the fields in declaration order
SerializeLast5Dropped(la) == <<[key |-> "last", text |-> FormatF64(la.last)], [key |-> "last15", text |-> FormatF64(la.last15)]>>

Serialize(la) == <<[key |-> "last", text |-> FormatF64(la.last)], [key |-> "last5", text |-> FormatF64(la.last5)], [key |-> "last15", text |-> FormatF64(la.last15)]>>

\* --------------------------------------------------------------- routing
\* #[get("/loadavg")] mounted at "/", main.rs:42 and 49.  Rocket answers a
\* HEAD request through a matching GET route and strips the body.
RouteMatchesAnyPath(m, p) == m \in {"GET", "HEAD"}

RouteMatches(m, p) == m \in {"GET", "HEAD"} /\ p = "/loadavg"

\* where the dispatcher sends a received request
DispatchDropping(m, p) == IF RouteMatches(m, p) THEN "handler" ELSE "dropped"

Dispatch(m, p) == IF RouteMatches(m, p) THEN "handler" ELSE "notfound"

\* status of the Json responder, main.rs:43-44
JsonStatus == 200

\* Rocket's default catcher for a request no route matches
NotFoundStatus == 404

\* the request's own buffer, as returned from the unsafe block (main.rs:31)
BufferShared(r) == IF \E q \in Reqs \ {r} : pc[q] = "called" THEN lavgs[CHOOSE q \in Reqs \ {r} : pc[q] = "called"] ELSE lavgs[r]

Buffer(r) == lavgs[r]

\* body written for a handled request: HEAD keeps the status, not the body
BodyFor(m, la) == IF m = "HEAD" THEN <<>> ELSE Serialize(la)

\* ----------------------------------------------------------------- state
Init ==
    /\ os \in OsStates
    /\ running = TRUE
    /\ pc = [r \in Reqs |-> "idle"]
    /\ method = [r \in Reqs |-> "GET"]
    /\ path = [r \in Reqs |-> "/loadavg"]
    /\ lavgs = [r \in Reqs |-> <<>>]
    /\ readOf = [r \in Reqs |-> <<>>]
    /\ resp = [r \in Reqs |-> <<>>]

\* the kernel's averages move on their own
OsTick ==
    /\ \E s \in OsStates \ {os} : os' = s
    /\ UNCHANGED <<running, pc, method, path, lavgs, readOf, resp>>

\* a client's request arrives on a connection (main.rs:50, launch)
Receive(r) ==
    /\ running
    /\ pc[r] = "idle"
    /\ \E m \in Methods, p \in Paths :
          /\ method' = [method EXCEPT ![r] = m]
          /\ path' = [path EXCEPT ![r] = p]
    /\ pc' = [pc EXCEPT ![r] = "received"]
    /\ UNCHANGED <<os, running, lavgs, readOf, resp>>

\* the dispatcher finds the route (main.rs:42, 49) or answers 404
Route(r) ==
    /\ running
    /\ pc[r] = "received"
    /\ LET d == Dispatch(method[r], path[r]) IN
         IF d = "notfound"
         THEN /\ pc' = [pc EXCEPT ![r] = "done"]
              /\ resp' = [resp EXCEPT ![r] = <<[status |-> NotFoundStatus, body |-> <<>>]>>]
         ELSE /\ pc' = [pc EXCEPT ![r] = d]
              /\ resp' = resp
    /\ UNCHANGED <<os, running, method, path, lavgs, readOf>>

\* LoadAvg::new up to the end of the unsafe block (main.rs:28-32)
CallGetloadavg(r) ==
    /\ running
    /\ pc[r] = "handler"
    /\ \E ret \in OsResults :
          /\ lavgs' = [lavgs EXCEPT ![r] = getloadavg(ZeroBuf, os, ret)]
          /\ readOf' = [readOf EXCEPT ![r] = <<[ret |-> ret, samples |-> SubSeq(os, 1, Written(ret))]>>]
          /\ running' = (running /\ SurvivesCall(ret))
    /\ pc' = [pc EXCEPT ![r] = "called"]
    /\ UNCHANGED <<os, method, path, resp>>

\* the struct literal and the Json responder (main.rs:34-38, 43-45)
Respond(r) ==
    /\ running
    /\ pc[r] = "called"
    /\ resp' = [resp EXCEPT ![r] = <<[status |-> JsonStatus, body |-> BodyFor(method[r], LoadAvgOf(Buffer(r)))]>>]
    /\ lavgs' = [lavgs EXCEPT ![r] = <<>>]
    /\ pc' = [pc EXCEPT ![r] = "done"]
    /\ UNCHANGED <<os, running, method, path, readOf>>

Next ==
    \/ OsTick
    \/ \E r \in Reqs : Receive(r)
    \/ \E r \in Reqs : Route(r)
    \/ \E r \in Reqs : CallGetloadavg(r)
    \/ \E r \in Reqs : Respond(r)

Spec == Init /\ [][Next]_vars

\* the worker pool keeps running: while some request has a step to take,
\* one of them is eventually taken; clients and the kernel owe nothing
Fairness == WF_vars(\E r \in Reqs : Route(r) \/ CallGetloadavg(r) \/ Respond(r))

FairSpec == Spec /\ Fairness

TypeOK ==
    /\ os \in OsStates
    /\ running \in BOOLEAN
    /\ pc \in [Reqs -> {"idle", "received", "handler", "called", "done"}]
    /\ method \in [Reqs -> Methods]
    /\ path \in [Reqs -> Paths]
    /\ \A r \in Reqs : Len(readOf[r]) <= 1 /\ Len(resp[r]) <= 1

\* ------------------------------------------------ what the client observes
Answered(r) == resp[r] # <<>>

Called(r) == readOf[r] # <<>>

Status(r) == resp[r][1].status

Body(r) == resp[r][1].body

Ret(r) == readOf[r][1].ret

Samples(r) == readOf[r][1].samples

IsGetLoadavg(r) == pc[r] # "idle" /\ method[r] = "GET" /\ path[r] = "/loadavg"

\* a GET /loadavg that went through the handler and has its response
Served(r) == IsGetLoadavg(r) /\ Called(r) /\ Answered(r)

DigitVal(c) == CHOOSE d \in 0..9 : Digit(d) = c

RECURSIVE DigitsVal(_)
DigitsVal(ds) == IF ds = <<>> THEN 0 ELSE DigitsVal(SubSeq(ds, 1, Len(ds) - 1)) * 10 + DigitVal(ds[Len(ds)])

\* a JSON number text read back as hundredths
ParseF64(text) ==
    LET neg == text # <<>> /\ text[1] = "-"
        t == IF neg THEN Tail(text) ELSE text
        dot == CHOOSE i \in 1..Len(t) : t[i] = "."
        frac == SubSeq(t, dot + 1, Len(t))
        mag == DigitsVal(SubSeq(t, 1, dot - 1)) * 100 + (IF Len(frac) = 1 THEN DigitsVal(frac) * 10 ELSE DigitsVal(frac))
    IN IF neg THEN 0 - mag ELSE mag

Keys(body) == [i \in 1..Len(body) |-> body[i].key]

Values(body) == [i \in 1..Len(body) |-> ParseF64(body[i].text)]

PadZero(samples) == [i \in 1..NELEM |-> IF i <= Len(samples) THEN samples[i] ELSE 0]

FieldNames == <<"last", "last5", "last15">>

ZeroText == <<"0", ".", "0">>

\* ---------------------------------------------------------------- claims

\* C1 (as stated): a GET /loadavg whose getloadavg call failed (returned -1)
\* is answered with a 5xx status, never with 200.
C1_FailedCallIs5xx == \A r \in Reqs : (Served(r) /\ Ret(r) = 0 - 1) => (Status(r) \in 500..599 /\ Status(r) # 200)

\* C2: when the kernel reports all three samples, GET /loadavg is answered
\* 200 with last, last5, last15 equal to the 1, 5 and 15 minute samples in
\* that order; samples 0.5, 0.75, 1.2 give the texts 0.5, 0.75, 1.2.
C2_FullReadBody ==
    \A r \in Reqs : (Served(r) /\ Ret(r) = NELEM) =>
        /\ Status(r) = 200
        /\ Keys(Body(r)) = FieldNames
        /\ Values(Body(r)) = Samples(r)
        /\ Samples(r) = <<50, 75, 120>> =>
              Body(r) = << [key |-> "last", text |-> <<"0", ".", "5">>],
                           [key |-> "last5", text |-> <<"0", ".", "7", "5">>],
                           [key |-> "last15", text |-> <<"1", ".", "2">>] >>

C2_Witness == \E r \in Reqs : Served(r) /\ Ret(r) = NELEM /\ Samples(r) = <<50, 75, 120>> /\ Status(r) = 200

\* C3: when the kernel reports k < 3 samples the request is answered 200,
\* the first k fields carry the k samples in order and every remaining
\* field is exactly 0.0.
C3_PartialReadZeroFill ==
    \A r \in Reqs : (Served(r) /\ Ret(r) \in 0..(NELEM - 1)) =>
        /\ Status(r) = 200
        /\ Len(Body(r)) = NELEM
        /\ \A i \in 1..NELEM :
              IF i <= Ret(r) THEN ParseF64(Body(r)[i].text) = Samples(r)[i]
                             ELSE Body(r)[i].text = ZeroText

C3_Witness == \E r \in Reqs : Served(r) /\ Ret(r) = 2 /\ Samples(r)[1] # 0 /\ Body(r)[3].text = ZeroText /\ Body(r)[2].text # ZeroText

\* C4: every 200 response to GET /loadavg carries exactly the keys last,
\* last5, last15, each with a non-negative value, whatever the outcome of
\* the OS call (full, partial or failed).
C4_CompleteNonNegative ==
    \A r \in Reqs : (IsGetLoadavg(r) /\ Answered(r) /\ Status(r) = 200) =>
        /\ Len(Body(r)) = NELEM
        /\ {Body(r)[i].key : i \in 1..Len(Body(r))} = {"last", "last5", "last15"}
        /\ \A i \in 1..Len(Body(r)) : ParseF64(Body(r)[i].text) >= 0

C4_Witness ==
    \E r, q \in Reqs :
        /\ Served(r) /\ Status(r) = 200 /\ Ret(r) = 0 - 1
        /\ Served(q) /\ Status(q) = 200 /\ Ret(q) = 1 /\ Len(Body(q)) = NELEM

\* C5: with requests handled concurrently while the kernel's values change,
\* every handled request is answered 200 with the values of the one OS read
\* that request made itself.
C5_OwnReadOnly ==
    \A r \in Reqs :
        /\ (Called(r) /\ Answered(r)) => Status(r) = 200
        /\ Served(r) => (Keys(Body(r)) = FieldNames /\ Values(Body(r)) = PadZero(Samples(r)))

C5_Witness ==
    \E r, q \in Reqs :
        /\ r # q
        /\ Served(r) /\ Ret(r) = NELEM /\ Values(Body(r)) = Samples(r)
        /\ pc[q] = "called" /\ Ret(q) = NELEM /\ Samples(q) # Samples(r)
        /\ os # Samples(r)

C7_FailureDoesNotStopServer ==
    [][ (\E q \in Reqs : Called(q) /\ Ret(q) = 0 - 1) =>
          /\ running'
          /\ \A r \in Reqs : (~Answered(r) /\ Answered(r)' /\ IsGetLoadavg(r) /\ Called(r) /\ Ret(r) = NELEM) =>
                (Status(r)' = 200 /\ Values(Body(r))' = Samples(r)) ]_vars

C7_Witness ==
    \E r, q \in Reqs :
        /\ Served(q) /\ Ret(q) = 0 - 1
        /\ Served(r) /\ Ret(r) = NELEM /\ Status(r) = 200 /\ Samples(r) # <<0, 0, 0>>
        /\ running

\* C8: the body of a GET /loadavg response depends only on what the OS
\* returned to that request: two requests given the same samples get the
\* same body, and every non-zero value of a body is a sample of the
\* request's own read, in its own slot.
C8_Stateless ==
    /\ \A r, q \in Reqs : (Served(r) /\ Served(q) /\ Samples(r) = Samples(q)) => Body(r) = Body(q)
    /\ \A r \in Reqs : Served(r) =>
          \A i \in 1..Len(Body(r)) : ParseF64(Body(r)[i].text) # 0 => (i <= Len(Samples(r)) /\ ParseF64(Body(r)[i].text) = Samples(r)[i])

C8_Witness ==
    \E r, q \in Reqs :
        /\ r # q
        /\ Served(r) /\ Ret(r) = NELEM /\ Samples(r) # <<0, 0, 0>>
        /\ Served(q) /\ Ret(q) = 1 /\ Samples(q)[1] # 0
        /\ Samples(r)[2] # 0 /\ Body(q)[2].text = ZeroText

\* C9: under fair scheduling of the handlers every received request is
\* eventually answered, and it is answered exactly once: a response, once
\* sent, is the only one and does not change.
C9_EveryRequestAnswered ==
    /\ \A r \in Reqs : (pc[r] = "received") ~> (Answered(r) /\ pc[r] = "done")
    /\ [](\A r \in Reqs : Len(resp[r]) <= 1 /\ (pc[r] = "done" => Len(resp[r]) = 1))
    /\ [][\A r \in Reqs : Answered(r) => resp'[r] = resp[r]]_vars

C9_Witness == \A r \in Reqs : pc[r] = "done" /\ Len(resp[r]) = 1

\* C10: the outcome of getloadavg is never inspected: when the call writes
\* no samples (it failed, or reported zero samples) the response is 200
\* with last = last5 = last15 = 0.0, the same response as for an idle host
\* whose three averages are 0.0.
C10_NoSamplesLooksIdle ==
    \A r \in Reqs : (Served(r) /\ Ret(r) \in {0 - 1, 0}) =>
        /\ Status(r) = 200
        /\ Keys(Body(r)) = FieldNames
        /\ \A i \in 1..Len(Body(r)) : Body(r)[i].text = ZeroText
        /\ \A q \in Reqs : (Served(q) /\ Ret(q) = NELEM /\ Samples(q) = <<0, 0, 0>>) => resp[q] = resp[r]

C10_Witness ==
    \E r, q \in Reqs :
        /\ Served(r) /\ Ret(r) = 0 - 1 /\ Status(r) = 200
        /\ Served(q) /\ Ret(q) = NELEM /\ Samples(q) = <<0, 0, 0>> /\ resp[q] = resp[r]
====
